---- MODULE Spec2Model ----
(***************************************************************************)
(* PERT / critical-path engine of src/pert.py (class PERTDiagram), with    *)
(* the sample project and the form validation of src/utils.py and the      *)
(* session of the Streamlit application src/app.py.                        *)
(*                                                                         *)
(* The registry self.tasks is a Python dict: a mapping (tasks) together    *)
(* with its insertion order (keys).  Numbers are Python numbers: sums and  *)
(* differences are rounded to MantissaBits significant bits, the way       *)
(* binary floating point rounds (ties to even); values below               *)
(* 2^MantissaBits are exact, as integers are.  None is a duration that is  *)
(* not a number: add_task stores whatever it is given.                     *)
(***************************************************************************)
EXTENDS Integers, Sequences, FiniteSets, TLC

VARIABLES tasks, keys, graph, critical_path, project_duration, result, nAdds,
          reanalysis, session_state, observed

\* tasks .. project_duration are the fields of the PERTDiagram object; result is
\* what the last call returned; session_state is st.session_state of the
\* application.  nAdds, reanalysis and observed are history variables: the
\* number of add_task calls, on what the last analyze() ran ("fresh": a project
\* holding no value of an earlier analysis, "stale": one holding such values,
\* "repeated": one analysed by the call just before), and what the last run of
\* the application script did.
vars == <<tasks, keys, graph, critical_path, project_duration, result, nAdds,
          reanalysis, session_state, observed>>

app == <<session_state, observed>>

(***************************************************************************)
(* Bounds of the model.                                                    *)
(***************************************************************************)
MaxAdds == 3
MaxDeps == 2
MaxDur == 1
MantissaBits == 5

TaskOrder == <<"A", "B", "C">>
TaskIds == {TaskOrder[i] : i \in 1 .. Len(TaskOrder)}

\* A duration that is not a number (Python None); kept apart from the numbers.
None == 0 - 1000

IsNumber(d) == d # None

RECURSIVE Pow2(_)
Pow2(n) == IF n = 0 THEN 1 ELSE 2 * Pow2(n - 1)

BigDur == Pow2(MantissaBits)

\* durations handed to add_task: a negative one, small positive ones, one large
\* enough for sums to be rounded, and one that is not a number
NumDurations == {0 - 1} \cup (1 .. MaxDur) \cup {BigDur}
Durations == NumDurations \cup {None}

Range(s) == {s[i] : i \in 1 .. Len(s)}

RECURSIVE SeqsUpTo(_, _)
SeqsUpTo(S, n) ==
    IF n = 0 THEN {<<>>}
    ELSE LET shorter == SeqsUpTo(S, n - 1)
         IN shorter \cup {Append(s, x) : s \in shorter, x \in S}

\* dependency lists handed to add_task: lists of identifiers without repetition
DepLists == {s \in SeqsUpTo(TaskIds, MaxDeps) : Cardinality(Range(s)) = Len(s)}

(***************************************************************************)
(* Python arithmetic.                                                      *)
(***************************************************************************)
Abs(x) == IF x < 0 THEN 0 - x ELSE x

RECURSIVE Quantum(_, _)
\* spacing of the representable numbers around magnitude a
Quantum(a, q) == IF a < q * Pow2(MantissaBits) THEN q ELSE Quantum(a, 2 * q)

Round(x) ==
    LET a == Abs(x)
        q == Quantum(a, 1)
        lo == (a \div q) * q
        rem == a - lo
        r == IF 2 * rem < q THEN lo
             ELSE IF 2 * rem > q THEN lo + q
             ELSE IF (lo \div q) % 2 = 0 THEN lo ELSE lo + q
    IN IF x < 0 THEN 0 - r ELSE r

PyAdd(x, y) == Round(x + y)
PySub(x, y) == Round(x - y)
Max2(x, y) == IF y > x THEN y ELSE x
Min2(x, y) == IF y < x THEN y ELSE x

(***************************************************************************)
(* Messages returned by validate_tasks / analyze.                          *)
(***************************************************************************)
NoMessage == [kind |-> "", task |-> "", dep |-> ""]
UnknownDependency(t, d) == [kind |-> "non-existent task", task |-> t, dep |-> d]
CircularDependency == [kind |-> "Circular dependency detected in the project",
                       task |-> "", dep |-> ""]
ExceptionMessage == [kind |-> "str(e)", task |-> "", dep |-> ""]

(***************************************************************************)
(* add_task                                                                *)
(***************************************************************************)
NewTask(duration, dependencies) ==
    [duration |-> duration, dependencies |-> dependencies,
     est |-> 0, eft |-> 0, lst |-> 0, lft |-> 0, float |-> 0]

\* faulty variant: an entry that exists is updated in place, keeping its
\* computed fields
Store_update(ts, task_id, entry) ==
    [t \in (DOMAIN ts) \cup {task_id} |->
        IF t # task_id THEN ts[t]
        ELSE IF t \in DOMAIN ts
             THEN [ts[t] EXCEPT !.duration = entry.duration,
                                !.dependencies = entry.dependencies]
             ELSE entry]

\* self.tasks[task_id] = {...}: a new key goes last, an old key keeps its place
Store(ts, task_id, entry) ==
    [t \in (DOMAIN ts) \cup {task_id} |-> IF t = task_id THEN entry ELSE ts[t]]

StoreKey(ks, ts, task_id) ==
    IF task_id \in DOMAIN ts THEN ks ELSE Append(ks, task_id)

add_task(task_id, duration, dependencies) ==
    /\ tasks' = Store(tasks, task_id, NewTask(duration, dependencies))
    /\ keys' = StoreKey(keys, tasks, task_id)
    /\ result' = [op |-> "add_task", success |-> TRUE, message |-> NoMessage]
    /\ UNCHANGED <<graph, critical_path, project_duration>>

(***************************************************************************)
(* Graphs (networkx.DiGraph): nodes in insertion order, and for each node  *)
(* its successors in the order their edges were added.                     *)
(***************************************************************************)
EmptyGraph == [nodes |-> <<>>, succ |-> <<>>]

DependsOn(ts, t, d) == d \in Range(ts[t].dependencies)

\* for task in tasks: add_node; for task in tasks: for dep in deps: add_edge(dep, task)
\* Both callers run after the unknown-dependency scan, so every dependency is a
\* node; the attributes copied onto the nodes are read by nothing and left out.
build_graph(ts, ks) ==
    [nodes |-> ks,
     succ |-> [n \in Range(ks) |->
                  SelectSeq(ks, LAMBDA t : DependsOn(ts, t, n))]]

successors(g, n) == g.succ[n]

in_degree(g, n) == Cardinality({m \in Range(g.nodes) : n \in Range(g.succ[m])})

\* nodes reachable from the frontier along at least one edge
RECURSIVE Descendants(_, _, _)
Descendants(g, frontier, seen) ==
    LET next == UNION {Range(g.succ[n]) : n \in frontier} \ seen
    IN IF next = {} THEN seen ELSE Descendants(g, next, seen \cup next)

\* faulty variant: only a task depending on itself counts as a cycle
find_cycle_self(g) ==
    \E n \in Range(g.nodes) : n \in Range(g.succ[n])

\* nx.find_cycle(g) finds a cycle: some node reaches itself
find_cycle(g) ==
    \E n \in Range(g.nodes) :
        n \in Descendants(g, {n}, {})

(***************************************************************************)
(* validate_tasks                                                          *)
(***************************************************************************)
RECURSIVE FirstMissing(_, _)
\* the first dependency of the list that is no key of the registry, or <<>>
FirstMissing(ts, deps) ==
    IF deps = <<>> THEN <<>>
    ELSE IF Head(deps) \notin DOMAIN ts THEN <<Head(deps)>>
    ELSE FirstMissing(ts, Tail(deps))

RECURSIVE FirstUnknown_first_task(_, _)
\* faulty variant: the message names the first task of the registry
FirstUnknown_first_task(ts, ks) ==
    IF ks = <<>> THEN <<>>
    ELSE LET m == FirstMissing(ts, ts[Head(ks)].dependencies)
         IN IF m # <<>> THEN <<Head(ks), m[1]>>
            ELSE LET rest == FirstUnknown_first_task(ts, Tail(ks))
                 IN IF rest = <<>> THEN <<>> ELSE <<Head(ks), rest[2]>>

RECURSIVE FirstUnknown(_, _)
\* the first (task, dependency) pair with the dependency missing, or <<>>
FirstUnknown(ts, ks) ==
    IF ks = <<>> THEN <<>>
    ELSE LET m == FirstMissing(ts, ts[Head(ks)].dependencies)
         IN IF m # <<>> THEN <<Head(ks), m[1]>>
            ELSE FirstUnknown(ts, Tail(ks))

\* faulty variant: a project without tasks is rejected as having nothing to
\* analyse
validate_tasks_nonempty(ts, ks) ==
    LET u == FirstUnknown(ts, ks)
    IN IF ks = <<>>
       THEN [success |-> FALSE, message |-> ExceptionMessage]
       ELSE IF u # <<>>
       THEN [success |-> FALSE, message |-> UnknownDependency(u[1], u[2])]
       ELSE IF find_cycle(build_graph(ts, ks))
       THEN [success |-> FALSE, message |-> CircularDependency]
       ELSE [success |-> TRUE, message |-> NoMessage]

validate_tasks(ts, ks) ==
    LET u == FirstUnknown(ts, ks)
    IN IF u # <<>>
       THEN [success |-> FALSE, message |-> UnknownDependency(u[1], u[2])]
       ELSE IF find_cycle(build_graph(ts, ks))
       THEN [success |-> FALSE, message |-> CircularDependency]
       ELSE [success |-> TRUE, message |-> NoMessage]

(***************************************************************************)
(* nx.topological_sort(graph): the generations of Kahn's algorithm, each   *)
(* in the order its nodes lost their last unprocessed predecessor.         *)
(***************************************************************************)
InitialIndegree(g) == [n \in Range(g.nodes) |-> in_degree(g, n)]

RECURSIVE RelaxChildren(_, _)
\* for child in G.neighbors(node): indegree_map[child] -= 1; collect the new zeros
RelaxChildren(children, acc) ==
    IF children = <<>> THEN acc
    ELSE LET c == Head(children)
             d == acc.indegree[c] - 1
             acc2 == [indegree |-> [acc.indegree EXCEPT ![c] = d],
                      zero |-> IF d = 0 THEN Append(acc.zero, c) ELSE acc.zero]
         IN RelaxChildren(Tail(children), acc2)

RECURSIVE RelaxGeneration(_, _, _)
RelaxGeneration(g, generation, acc) ==
    IF generation = <<>> THEN acc
    ELSE RelaxGeneration(g, Tail(generation),
                         RelaxChildren(successors(g, Head(generation)), acc))

RECURSIVE Generations(_, _, _, _)
Generations(g, zero_indegree, indegree, sorted) ==
    IF zero_indegree = <<>> THEN sorted
    ELSE LET acc == RelaxGeneration(g, zero_indegree,
                                    [indegree |-> indegree, zero |-> <<>>])
         IN Generations(g, acc.zero, acc.indegree, sorted \o zero_indegree)

\* faulty variant: the tasks in the order of the registry
topological_sort_insertion(g) == g.nodes

topological_sort(g) ==
    Generations(g, SelectSeq(g.nodes, LAMBDA n : in_degree(g, n) = 0),
                InitialIndegree(g), <<>>)

Reverse(s) == [i \in 1 .. Len(s) |-> s[Len(s) + 1 - i]]

(***************************************************************************)
(* calculate_earliest_times                                                *)
(***************************************************************************)
\* faulty variant: the earliest finish of the last dependency instead of the largest
max_eft_last(ts, deps, acc) ==
    IF deps = <<>> THEN acc ELSE ts[deps[Len(deps)]].eft

RECURSIVE max_eft(_, _, _)
\* max_eft = 0; for dep in dependencies: max_eft = max(max_eft, eft of dep)
max_eft(ts, deps, acc) ==
    IF deps = <<>> THEN acc
    ELSE max_eft(ts, Tail(deps), Max2(acc, ts[Head(deps)].eft))

\* faulty variant: only the first dependency is looked at
earliest_start_first(ts, t) ==
    IF ts[t].dependencies = <<>> THEN 0
    ELSE Max2(0, ts[ts[t].dependencies[1]].eft)

earliest_start(ts, t) ==
    IF ts[t].dependencies = <<>> THEN 0
    ELSE max_eft(ts, ts[t].dependencies, 0)

earliest_finish(est, duration) == PyAdd(est, duration)

RECURSIVE ForwardPass(_, _)
\* one task per step of the loop; est + duration raises TypeError when the
\* duration is not a number, after est was assigned
ForwardPass(ts, order) ==
    IF order = <<>> THEN [tasks |-> ts, raised |-> FALSE]
    ELSE LET t == Head(order)
             est == earliest_start(ts, t)
             withEst == [ts EXCEPT ![t].est = est]
         IN IF ~IsNumber(ts[t].duration)
            THEN [tasks |-> withEst, raised |-> TRUE]
            ELSE ForwardPass(
                     [withEst EXCEPT ![t].eft = earliest_finish(est, ts[t].duration)],
                     Tail(order))

RECURSIVE MaxOver(_, _)
MaxOver(ts, ks) ==
    IF Len(ks) = 1 THEN ts[ks[1]].eft
    ELSE Max2(ts[Head(ks)].eft, MaxOver(ts, Tail(ks)))

\* faulty variant: the earliest finish of the task added last
duration_of_last(ts, ks, old) ==
    IF ks = <<>> THEN old ELSE ts[ks[Len(ks)]].eft

\* faulty variant: the project duration is never lowered by a new analysis
duration_of_project_sticky(ts, ks, old) ==
    IF ks = <<>> THEN old ELSE Max2(old, MaxOver(ts, ks))

\* if self.tasks: project_duration = max(eft of every task)
duration_of_project(ts, ks, old) ==
    IF ks = <<>> THEN old ELSE MaxOver(ts, ks)

(***************************************************************************)
(* calculate_latest_times                                                  *)
(***************************************************************************)
seed_lft(ts, pd) == [t \in DOMAIN ts |-> [ts[t] EXCEPT !.lft = pd]]

RECURSIVE min_lst(_, _)
\* min_lst = inf; for succ in successors: min_lst = min(min_lst, lst of succ)
min_lst(ts, succs) ==
    IF Len(succs) = 1 THEN ts[succs[1]].lst
    ELSE Min2(ts[Head(succs)].lst, min_lst(ts, Tail(succs)))

\* faulty variant: only the first successor is looked at
latest_finish_first(ts, g, t) ==
    IF successors(g, t) # <<>> THEN ts[successors(g, t)[1]].lst
    ELSE ts[t].lft

latest_finish(ts, g, t) ==
    IF successors(g, t) # <<>> THEN min_lst(ts, successors(g, t))
    ELSE ts[t].lft

\* faulty variant: the duration is not subtracted
latest_start_no_duration(lft, duration) == lft

latest_start(lft, duration) == PySub(lft, duration)

slack(lst, est) == PySub(lst, est)

RECURSIVE BackwardPass(_, _, _)
BackwardPass(ts, g, order) ==
    IF order = <<>> THEN ts
    ELSE LET t == Head(order)
             lft == latest_finish(ts, g, t)
             lst == latest_start(lft, ts[t].duration)
         IN BackwardPass(
                [ts EXCEPT ![t].lft = lft, ![t].lst = lst,
                           ![t].float = slack(lst, ts[t].est)],
                g, Tail(order))

\* faulty variant: the backward pass walks the tasks in forward order
backward_order_forward(g) == topological_sort(g)

backward_order(g) == Reverse(topological_sort(g))

calculate_latest_times(ts, g, pd) ==
    BackwardPass(seed_lft(ts, pd), g, backward_order(g))

(***************************************************************************)
(* identify_critical_path                                                  *)
(***************************************************************************)
is_critical(ts, t) == ts[t].float = 0

critical_tasks(ts, ks) == SelectSeq(ks, LAMBDA t : is_critical(ts, t))

\* faulty variant: the traversal follows every edge of the graph
critical_successors_all(g, crit, n) == successors(g, n)

\* graph.subgraph(critical_tasks): the edges with both ends critical
critical_successors(g, crit, n) ==
    SelectSeq(successors(g, n), LAMBDA s : s \in Range(crit))

critical_in_degree(g, crit, n) ==
    Cardinality({m \in Range(crit) : n \in Range(g.succ[m])})

start_tasks(g, crit) ==
    SelectSeq(crit, LAMBDA t : critical_in_degree(g, crit, t) = 0)

RECURSIVE BFS(_, _, _, _, _)
BFS(g, crit, queue, visited, path) ==
    IF queue = <<>> THEN path
    ELSE LET t == Head(queue)
         IN IF t \in visited THEN BFS(g, crit, Tail(queue), visited, path)
            ELSE LET v == visited \cup {t}
                     more == SelectSeq(critical_successors(g, crit, t),
                                       LAMBDA s : s \notin v)
                 IN BFS(g, crit, Tail(queue) \o more, v, Append(path, t))

identify_critical_path(ts, ks, g) ==
    LET crit == critical_tasks(ts, ks)
    IN BFS(g, crit, start_tasks(g, crit), {}, <<>>)

(***************************************************************************)
(* analyze                                                                 *)
(***************************************************************************)
\* The project object: the fields of a PERTDiagram.
Diagram(ts, ks, g, cp, pd) ==
    [tasks |-> ts, keys |-> ks, graph |-> g, critical_path |-> cp,
     project_duration |-> pd]

self == Diagram(tasks, keys, graph, critical_path, project_duration)

\* analyze() on project d: the project it leaves and the pair it returns.
analyze_call(d) ==
    LET v == validate_tasks(d.tasks, d.keys)
    IN IF ~v.success
       THEN [self |-> d, success |-> FALSE, message |-> v.message]
       ELSE LET g == build_graph(d.tasks, d.keys)
                fwd == ForwardPass(d.tasks, topological_sort(g))
            IN IF fwd.raised
               THEN [self |-> [d EXCEPT !.graph = g, !.tasks = fwd.tasks],
                     success |-> FALSE, message |-> ExceptionMessage]
               ELSE LET pd == duration_of_project(fwd.tasks, d.keys,
                                                  d.project_duration)
                        ts == calculate_latest_times(fwd.tasks, g, pd)
                    IN [self |-> Diagram(ts, d.keys, g,
                                         identify_critical_path(ts, d.keys, g), pd),
                        success |-> TRUE, message |-> NoMessage]

analyze ==
    \E r \in {analyze_call(self)} :
       /\ tasks' = r.self.tasks
       /\ keys' = r.self.keys
       /\ graph' = r.self.graph
       /\ critical_path' = r.self.critical_path
       /\ project_duration' = r.self.project_duration
       /\ result' = [op |-> "analyze", success |-> r.success,
                     message |-> r.message]

(***************************************************************************)
(* get_task_table                                                          *)
(***************************************************************************)
get_task_table ==
    [i \in 1 .. Len(keys) |->
        [Task |-> keys[i],
         Duration |-> tasks[keys[i]].duration,
         Dependencies |-> tasks[keys[i]].dependencies,
         EST |-> tasks[keys[i]].est, EFT |-> tasks[keys[i]].eft,
         LST |-> tasks[keys[i]].lst, LFT |-> tasks[keys[i]].lft,
         Float |-> tasks[keys[i]].float,
         Critical |-> keys[i] \in Range(critical_path)]]

(***************************************************************************)
(* get_sample_data                                                         *)
(***************************************************************************)
get_sample_data ==
    << [task_id |-> "A", duration |-> 3, dependencies |-> <<>>],
       [task_id |-> "B", duration |-> 4, dependencies |-> <<"A">>],
       [task_id |-> "C", duration |-> 2, dependencies |-> <<"A">>],
       [task_id |-> "D", duration |-> 5, dependencies |-> <<"B">>],
       [task_id |-> "E", duration |-> 6, dependencies |-> <<"C">>],
       [task_id |-> "F", duration |-> 4, dependencies |-> <<"D", "E">>],
       [task_id |-> "G", duration |-> 3, dependencies |-> <<"F">>] >>

(***************************************************************************)
(* The state machine: a PERTDiagram and the calls made on it.              *)
(***************************************************************************)
\* st.session_state as the script initialises it on the first run
InitialSession ==
    [tasks_added |-> FALSE, show_sample |-> FALSE, error_message |-> NoMessage]

\* after the first run of the script: the Task Input tab is shown, the other
\* tabs hold only a hint, analyze() and validate_task_input were not called
NothingObserved ==
    [tab |-> "Task Input", rendered |-> {}, last_analyze |-> "none",
     form |-> [called |-> FALSE]]

Init ==
    /\ tasks = <<>>
    /\ keys = <<>>
    /\ graph = EmptyGraph
    /\ critical_path = <<>>
    /\ project_duration = 0
    /\ result = [op |-> "__init__", success |-> TRUE, message |-> NoMessage]
    /\ nAdds = 0
    /\ reanalysis = "fresh"
    /\ session_state = InitialSession
    /\ observed = NothingObserved

\* Identifiers are only labels to the program, so new tasks take them in the
\* order of TaskOrder; dependencies may name any of them, registered or not.
NextId(task_id) ==
    \/ task_id \in DOMAIN tasks
    \/ Len(keys) < Len(TaskOrder) /\ task_id = TaskOrder[Len(keys) + 1]

AddTask ==
    /\ nAdds < MaxAdds
    /\ nAdds' = nAdds + 1
    /\ \E task_id \in TaskIds, duration \in Durations, dependencies \in DepLists :
           /\ NextId(task_id)
           /\ add_task(task_id, duration, dependencies)
    /\ reanalysis' = "fresh"
    /\ UNCHANGED app

\* values an earlier analysis may have left in the project
Leftovers == graph # EmptyGraph \/ project_duration # 0

Analyze ==
    /\ analyze
    /\ reanalysis' = IF result.op = "analyze" THEN "repeated"
                      ELSE IF Leftovers THEN "stale" ELSE "fresh"
    /\ UNCHANGED <<nAdds, app>>

\* faulty variant: the graph validate_tasks builds is stored in self.graph
ValidateTasks_stores_graph ==
    /\ result' = [op |-> "validate_tasks"] @@ validate_tasks(tasks, keys)
    /\ graph' = IF FirstUnknown(tasks, keys) = <<>>
                THEN build_graph(tasks, keys) ELSE graph
    /\ reanalysis' = "fresh"
    /\ UNCHANGED <<tasks, keys, critical_path, project_duration, nAdds>>
    /\ UNCHANGED app

ValidateTasks ==
    /\ result' = [op |-> "validate_tasks"] @@ validate_tasks(tasks, keys)
    /\ reanalysis' = "fresh"
    /\ UNCHANGED <<tasks, keys, graph, critical_path, project_duration, nAdds>>
    /\ UNCHANGED app

Next == AddTask \/ Analyze \/ ValidateTasks

Spec == Init /\ [][Next]_vars

\* The diamond of the sample project: tasks A..F, each added once, in any order.
DiamondTasks == SubSeq(get_sample_data, 1, 6)

AddSampleTask ==
    /\ nAdds' = nAdds + 1
    /\ \E i \in 1 .. Len(DiamondTasks) :
           /\ DiamondTasks[i].task_id \notin DOMAIN tasks
           /\ add_task(DiamondTasks[i].task_id, DiamondTasks[i].duration,
                       DiamondTasks[i].dependencies)
    /\ reanalysis' = "fresh"
    /\ UNCHANGED app

NextSample == AddSampleTask \/ Analyze \/ ValidateTasks

SpecSample == Init /\ [][NextSample]_vars

(***************************************************************************)
(* utils.validate_task_input.  The text typed into the dependencies field  *)
(* is a sequence of characters; an identifier is the string its characters *)
(* spell.                                                                  *)
(***************************************************************************)
MaxChars == 3

Chars == {"A", "H", ",", " "}

\* what the form's three text fields may hold
TaskIdStrings == {"", "A", "H"}

DurationStrings == {"1", "0", "-1", "x"}

DependencyStrings == SeqsUpTo(Chars, MaxChars)

\* float(duration_str): the number, or None where float raises ValueError
float(duration_str) ==
    CASE duration_str = "1" -> 1
      [] duration_str = "0" -> 0
      [] duration_str = "-1" -> 0 - 1
      [] OTHER -> None

RECURSIVE split(_, _)
\* str.split(sep): the pieces between the separators, one more than separators
split(s, sep) ==
    IF s = <<>> THEN << <<>> >>
    ELSE LET rest == split(Tail(s), sep)
         IN IF Head(s) = sep THEN << <<>> >> \o rest
            ELSE << <<Head(s)>> \o Head(rest) >> \o Tail(rest)

RECURSIVE lstrip(_)
lstrip(s) == IF s # <<>> /\ Head(s) = " " THEN lstrip(Tail(s)) ELSE s

\* str.strip(): without the blanks at both ends
strip(s) == Reverse(lstrip(Reverse(lstrip(s))))

RECURSIVE Spell(_)
\* the string made of the characters of s
Spell(s) == IF s = <<>> THEN "" ELSE Head(s) \o Spell(Tail(s))

EmptyTaskId == [kind |-> "Task ID cannot be empty", task |-> "", dep |-> ""]

AlreadyExists(task_id) == [kind |-> "already exists", task |-> task_id, dep |-> ""]

MustBePositive == [kind |-> "Duration must be positive", task |-> "", dep |-> ""]

NotANumber == [kind |-> "Duration must be a number", task |-> "", dep |-> ""]

DoesNotExist(dep) == [kind |-> "does not exist", task |-> "", dep |-> dep]

Rejected(message) == [valid |-> FALSE, message |-> message]

\* [dep.strip() for dep in dependencies_str.split(',')], or [] for a blank field
parse_dependencies(dependencies_str) ==
    IF strip(dependencies_str) = <<>> THEN <<>>
    ELSE LET pieces == split(dependencies_str, ",")
         IN [i \in 1 .. Len(pieces) |-> Spell(strip(pieces[i]))]

\* the first dependency that is not empty and not in existing_tasks, or <<>>
first_missing(dependencies, existing_tasks) ==
    SelectSeq(dependencies,
              LAMBDA dep : dep # "" /\ dep \notin Range(existing_tasks))

validate_task_input(task_id, duration_str, dependencies_str, existing_tasks) ==
    LET duration == float(duration_str)
        dependencies == parse_dependencies(dependencies_str)
        missing == first_missing(dependencies, existing_tasks)
    IN IF task_id = "" THEN Rejected(EmptyTaskId)
       ELSE IF task_id \in Range(existing_tasks) THEN Rejected(AlreadyExists(task_id))
       ELSE IF ~IsNumber(duration) THEN Rejected(NotANumber)
       ELSE IF duration <= 0 THEN Rejected(MustBePositive)
       ELSE IF missing # <<>> THEN Rejected(DoesNotExist(missing[1]))
       ELSE [valid |-> TRUE, message |-> NoMessage,
             duration |-> duration, dependencies |-> dependencies]

(***************************************************************************)
(* The application (app.py).  Every interaction runs the script from top   *)
(* to bottom; st.rerun() starts it again with no button pressed.  A step   *)
(* of the model is one interaction with all the script runs it causes.     *)
(***************************************************************************)
Tabs == {"Task Input", "PERT Analysis", "Export Options"}

\* PERTDiagram()
NewDiagram == Diagram(<<>>, <<>>, EmptyGraph, <<>>, 0)

\* add_task on project d
add_task_call(d, task_id, duration, dependencies) ==
    [d EXCEPT !.tasks = Store(d.tasks, task_id, NewTask(duration, dependencies)),
              !.keys = StoreKey(d.keys, d.tasks, task_id)]

RECURSIVE add_all(_, _)
\* for task in sample_data: pert_diagram.add_task(...)
add_all(d, data) ==
    IF data = <<>> THEN d
    ELSE add_all(add_task_call(d, Head(data).task_id, Head(data).duration,
                               Head(data).dependencies),
                 Tail(data))

\* the session while a script run executes; stopped: st.stop() was called
Session ==
    [self |-> self, result |-> result, session_state |-> session_state,
     observed |-> observed, stopped |-> FALSE]

\* with session s, a call of st.session_state.pert_diagram.analyze()
analyzed(s, r) ==
    [s EXCEPT !.self = r.self,
              !.result = [op |-> "analyze", success |-> r.success,
                          message |-> r.message],
              !.observed.last_analyze =
                  IF r.success THEN "succeeded" ELSE "failed"]

call_analyze(s) == analyzed(s, analyze_call(s.self))

\* Tab 1: the Analyze Project button, shown once tasks were added
analyze_button(s, pressed) ==
    IF s.session_state.tasks_added /\ pressed THEN call_analyze(s) ELSE s

\* Tab 2 and Tab 3: analyse if project_duration is falsy, stop the script if
\* that fails, else render
render_tab(s, a, tab) ==
    IF s.self.project_duration = 0 /\ ~a.result.success
    THEN [a EXCEPT !.stopped = TRUE]
    ELSE [a EXCEPT !.observed.rendered = @ \cup {tab}]

analysis_tab(s, tab) ==
    IF s.stopped \/ ~s.session_state.tasks_added THEN s
    ELSE render_tab(s, IF s.self.project_duration = 0 THEN call_analyze(s) ELSE s,
                    tab)

\* end of the script: analysis of a freshly loaded sample
finish_sample(a) ==
    IF a.result.success THEN [a EXCEPT !.session_state.show_sample = FALSE] ELSE a

show_sample_analysis(s) ==
    IF s.stopped \/ ~s.session_state.show_sample \/ s.self.project_duration # 0
    THEN s
    ELSE finish_sample(call_analyze(s))

\* one run of the script below the sidebar and the form
script(s, pressed) ==
    show_sample_analysis(
        analysis_tab(
            analysis_tab(
                analyze_button([s EXCEPT !.observed.rendered = {}], pressed),
                "PERT Analysis"),
            "Export Options"))

\* the state the script run leaves
Leaves(s) ==
    /\ tasks' = s.self.tasks
    /\ keys' = s.self.keys
    /\ graph' = s.self.graph
    /\ critical_path' = s.self.critical_path
    /\ project_duration' = s.self.project_duration
    /\ result' = s.result
    /\ session_state' = s.session_state
    /\ observed' = s.observed
    /\ UNCHANGED reanalysis

Constructed == [op |-> "__init__", success |-> TRUE, message |-> NoMessage]

\* sidebar: Reset Project
ResetProject ==
    /\ nAdds' = 0
    /\ \E s \in {script([Session EXCEPT !.self = NewDiagram,
                                        !.result = Constructed,
                                        !.observed.last_analyze = "none",
                                        !.session_state.tasks_added = FALSE],
                        FALSE)} :
           Leaves(s)

\* sidebar: Load Sample Project
LoadSampleProject ==
    /\ nAdds' = Len(get_sample_data)
    /\ \E s \in {script([Session EXCEPT !.self = add_all(NewDiagram, get_sample_data),
                                        !.result = [Constructed EXCEPT !.op = "add_task"],
                                        !.observed.last_analyze = "none",
                                        !.session_state.tasks_added = TRUE,
                                        !.session_state.show_sample = TRUE],
                        FALSE)} :
           Leaves(s)

\* what is remembered of the last call of validate_task_input
FormCall(task_id, existing_tasks, v) ==
    IF v.valid
    THEN [called |-> TRUE, valid |-> TRUE, task_id |-> task_id,
          existing_tasks |-> existing_tasks,
          duration |-> v.duration, dependencies |-> v.dependencies]
    ELSE [called |-> TRUE, valid |-> FALSE]

\* the form's Add Task button with a valid input
accept_task(s, task_id, v) ==
    [s EXCEPT !.self = add_task_call(s.self, task_id, v.duration, v.dependencies),
              !.result = [Constructed EXCEPT !.op = "add_task"],
              !.session_state.tasks_added = TRUE,
              !.session_state.error_message = NoMessage]

\* Tab 1: the form's Add Task button
SubmitTask ==
    \E task_id \in TaskIdStrings, duration \in DurationStrings,
       dependencies \in DependencyStrings :
        \E v \in {validate_task_input(task_id, duration, dependencies, keys)} :
            \E called \in {[Session EXCEPT
                               !.observed.form = FormCall(task_id, keys, v)]} :
                IF v.valid
                THEN /\ nAdds' = nAdds + 1
                     /\ \E s \in {script(accept_task(called, task_id, v), FALSE)} :
                            Leaves(s)
                ELSE /\ UNCHANGED nAdds
                     /\ \E s \in {script([called EXCEPT
                                             !.session_state.error_message = v.message],
                                         FALSE)} :
                            Leaves(s)

\* Tab 1: the Analyze Project button
PressAnalyze ==
    /\ session_state.tasks_added
    /\ UNCHANGED nAdds
    /\ \E s \in {script(Session, TRUE)} : Leaves(s)

\* the user opens a tab; tabs switch in the browser, no script runs
OpenTab ==
    /\ \E tab \in Tabs : observed' = [observed EXCEPT !.tab = tab]
    /\ UNCHANGED <<tasks, keys, graph, critical_path, project_duration, result,
                   nAdds, reanalysis, session_state>>

NextApp ==
    ResetProject \/ LoadSampleProject \/ SubmitTask \/ PressAnalyze \/ OpenTab

SpecApp == Init /\ [][NextApp]_vars

(***************************************************************************)

(* Vocabulary of the properties.                                           *)
(***************************************************************************)
\* the last call was analyze() and it returned success
Analyzed == result.op = "analyze" /\ result.success

Registered == DOMAIN tasks

DepsOf(t) == Range(tasks[t].dependencies)

Dependents(t) == {s \in Registered : t \in DepsOf(s)}

SetMax(S) == CHOOSE x \in S : \A y \in S : y <= x

SetMin(S) == CHOOSE x \in S : \A y \in S : x <= y

NoRepeats(s) == Cardinality(Range(s)) = Len(s)

AllResolve == \A t \in Registered : DepsOf(t) \subseteq Registered

\* the declared dependencies of the registered tasks contain a directed cycle
DeclaredCycle ==
    \E s \in SeqsUpTo(Registered, Len(TaskOrder)) :
        /\ s # <<>>
        /\ \A i \in 1 .. Len(s) - 1 : s[i] \in DepsOf(s[i + 1])
        /\ s[Len(s)] \in DepsOf(s[1])

(***************************************************************************)
(* C1: diamond scenario A(3), B(4,[A]), C(2,[A]), D(5,[B]), E(6,[C]),      *)
(* F(4,[D,E]) followed by analyze().                                       *)
(***************************************************************************)
DiamondAnalyzed ==
    /\ result.op = "analyze"
    /\ Registered = {"A", "B", "C", "D", "E", "F"}

\* C1 as stated: analyze succeeds with project_duration 15, critical path
\* A, C, E, F, and B (earliest start 3, earliest finish 7, slack 1) and D
\* off the critical path.
C1_DiamondAsStated ==
    (DiamondAnalyzed /\ keys = <<"A", "B", "C", "D", "E", "F">>) =>
        /\ result.success
        /\ project_duration = 15
        /\ critical_path = <<"A", "C", "E", "F">>
        /\ tasks["B"].est = 3 /\ tasks["B"].eft = 7 /\ tasks["B"].float = 1
        /\ tasks["B"].float # 0 /\ tasks["D"].float # 0

\* C1 amended: analyze succeeds with project_duration 16 (A, B, D, F:
\* 3 + 4 + 5 + 4), critical path A, B, D, F; B has earliest start 3 and
\* earliest finish 7 and slack 0; C and E are off the critical path with
\* slack 1.
C1_Diamond ==
    DiamondAnalyzed =>
        /\ result.success
        /\ project_duration = 16
        /\ critical_path = <<"A", "B", "D", "F">>
        /\ tasks["B"].est = 3 /\ tasks["B"].eft = 7 /\ tasks["B"].float = 0
        /\ tasks["D"].float = 0
        /\ tasks["C"].float = 1 /\ tasks["E"].float = 1
        /\ tasks["E"].est = 5 /\ tasks["E"].eft = 11
        /\ tasks["F"].est = 12

C1_Witness ==
    /\ DiamondAnalyzed
    /\ keys = <<"A", "B", "C", "D", "E", "F">>
    /\ project_duration = 16

(***************************************************************************)
(* C2: a failing analyze() leaves every task's computed fields,            *)
(* project_duration and critical_path as they were before the call.        *)
(***************************************************************************)
C2_FailureLeavesState ==
    [][(analyze /\ ~result'.success) =>
           UNCHANGED <<tasks, project_duration, critical_path>>]_vars

(***************************************************************************)
(* C3: after a successful analyze() critical_path holds exactly the tasks  *)
(* of slack 0, each once, and the table's Critical flag is set on exactly  *)
(* the rows of slack 0.                                                    *)
(***************************************************************************)
C3_CriticalIffZeroSlack ==
    Analyzed =>
        /\ Range(critical_path) = {t \in Registered : tasks[t].float = 0}
        /\ NoRepeats(critical_path)
        /\ \A i \in 1 .. Len(get_task_table) :
               get_task_table[i].Critical <=> (get_task_table[i].Float = 0)

\* a critical task reached from two critical predecessors, beside a task
\* that is not critical
C3_Witness ==
    /\ Analyzed
    /\ Len(critical_path) = 2
    /\ \E t \in Registered : tasks[t].float > 0
    /\ \E t \in Range(critical_path) :
           /\ tasks[t].dependencies # <<>>
           /\ DepsOf(t) \subseteq Range(critical_path)

(***************************************************************************)
(* C4: after a successful analyze() every task has slack >= 0, latest      *)
(* start >= earliest start and latest finish >= earliest finish.           *)
(***************************************************************************)
C4_SlackNonNegative ==
    Analyzed =>
        \A t \in Registered :
            /\ tasks[t].float >= 0
            /\ tasks[t].lst >= tasks[t].est
            /\ tasks[t].lft >= tasks[t].eft

(***************************************************************************)
(* C5: after a successful analyze() of a project with at least one task,   *)
(* project_duration is the largest earliest finish of the registry.        *)
(***************************************************************************)
C5_DurationIsMaxEft ==
    (Analyzed /\ Registered # {}) =>
        project_duration = SetMax({tasks[t].eft : t \in Registered})

\* the task added last does not finish last
C5_Witness ==
    /\ Analyzed
    /\ Len(keys) = 3
    /\ tasks[keys[3]].eft < project_duration
    /\ tasks[keys[1]].eft < project_duration

C7_LatestFinish ==
    Analyzed =>
        \A t \in Registered :
            tasks[t].lft = IF Dependents(t) = {} THEN project_duration
                           ELSE SetMin({tasks[s].lst : s \in Dependents(t)})

\* a task with two dependents, the one added first starting later
C7_Witness ==
    /\ Analyzed
    /\ \E t \in Registered :
           /\ Len(successors(graph, t)) = 2
           /\ tasks[successors(graph, t)[1]].lst > tasks[successors(graph, t)[2]].lst

(***************************************************************************)
(* C8: after a successful analyze(), for every task, earliest finish is    *)
(* earliest start + duration, latest start is latest finish - duration and *)
(* slack is latest start - earliest start, in the program's arithmetic.    *)
(***************************************************************************)
C8_Identities ==
    Analyzed =>
        \A t \in Registered :
            /\ tasks[t].eft = PyAdd(tasks[t].est, tasks[t].duration)
            /\ tasks[t].lst = PySub(tasks[t].lft, tasks[t].duration)
            /\ tasks[t].float = PySub(tasks[t].lst, tasks[t].est)

C8_Witness ==
    /\ Analyzed
    /\ \E t \in Registered :
           /\ tasks[t].est > 0
           /\ tasks[t].float > 0
           /\ tasks[t].lft < project_duration

(***************************************************************************)
(* C9: while a registered task declares a dependency that is no key of     *)
(* the registry, analyze() and validate_tasks() fail with a message naming *)
(* such a task and the missing identifier, cycle or no cycle; add_task     *)
(* itself succeeds.                                                        *)
(***************************************************************************)
C9_UnknownDependency ==
    /\ (result.op \in {"analyze", "validate_tasks"} /\ ~AllResolve) =>
           /\ ~result.success
           /\ result.message.kind = UnknownDependency("", "").kind
           /\ result.message.task \in Registered
           /\ result.message.dep \in DepsOf(result.message.task)
           /\ result.message.dep \notin Registered
    /\ result.op = "add_task" => result.success

\* the missing dependency is declared second, by a task on a cycle
C9_Witness ==
    /\ result.op = "analyze"
    /\ ~AllResolve
    /\ DeclaredCycle
    /\ tasks[result.message.task].dependencies[2] = result.message.dep
    /\ tasks[result.message.task].dependencies[1] \in Registered

(***************************************************************************)
(* C10: with every dependency resolved, analyze() fails with the fixed     *)
(* circular-dependency message exactly when the dependencies contain a     *)
(* directed cycle; without a cycle validation succeeds.                    *)
(***************************************************************************)
C10_CycleDetected ==
    AllResolve =>
        /\ (result.op \in {"analyze", "validate_tasks"} /\ DeclaredCycle) =>
               ~result.success /\ result.message = CircularDependency
        /\ (result.op = "validate_tasks" /\ ~DeclaredCycle) =>
               result.success /\ result.message = NoMessage
        /\ (result.op = "analyze" /\ ~DeclaredCycle) =>
               result.message # CircularDependency

\* a cycle through three tasks, none depending on itself or in a two-cycle
C10_Witness ==
    /\ result.op = "analyze"
    /\ AllResolve
    /\ DeclaredCycle
    /\ \A t \in Registered : \A d \in DepsOf(t) : t \notin DepsOf(d)

\* C11: idempotence.  When analyze() has just succeeded and is called again
\* with no add_task in between, the second call succeeds too and leaves every
\* task's computed fields, project_duration and the critical_path sequence
\* exactly as the first call left them.
C11_Idempotent ==
    [][(Analyzed /\ analyze)
          => /\ result'.success
             /\ UNCHANGED <<tasks, keys, graph, project_duration, critical_path>>]_vars

\* a second analyze() of a chain of two tasks, with no add_task since the first
C11_Witness ==
    /\ Analyzed /\ reanalysis = "repeated"
    /\ Len(keys) = 2 /\ Len(critical_path) = 2
    /\ \E t \in Registered : DepsOf(t) # {}
    /\ \A t \in Registered : tasks[t].lft = project_duration

\* what replaying the add_task calls on a fresh project leaves: the registry in
\* the same key order with every computed field 0, no graph, no analysis
Replayed ==
    Diagram([t \in DOMAIN tasks |->
                 NewTask(tasks[t].duration, tasks[t].dependencies)],
            keys, EmptyGraph, <<>>, 0)

\* C12: history independence.  Whatever add_task and analyze calls came
\* before, a successful analyze() leaves the computed fields, the graph,
\* project_duration and critical_path that one analyze() of a fresh project
\* holding the same registry leaves: nothing of an earlier analysis survives.
C12_HistoryIndependent ==
    [][(analyze /\ result'.success)
          => Diagram(tasks', keys', graph', critical_path', project_duration')
               = analyze_call(Replayed).self]_vars

\* a successful analysis of a project that was analysed before, then changed by
\* overwriting a task
C12_Witness ==
    /\ Analyzed /\ reanalysis = "stale"
    /\ nAdds = MaxAdds /\ Len(keys) = 2 /\ Len(critical_path) = 1

\* C13: add_task(id, duration, dependencies) succeeds for every identifier,
\* duration and dependency list: afterwards the registry maps id to the given
\* duration and dependencies with all computed fields 0 (replacing any previous
\* entry of id, which keeps its place in the key order), every other entry is
\* unchanged, and project_duration, critical_path and the stored graph are
\* unchanged.  No step of any operation removes a registered identifier.
C13_AddTask ==
    [][/\ Registered \subseteq DOMAIN tasks'
       /\ result'.op = "add_task" =>
            \A task_id \in TaskIds :
              keys' = StoreKey(keys, tasks, task_id) =>
                \A duration \in Durations, dependencies \in DepLists :
                  add_task(task_id, duration, dependencies)
                    => /\ result'.success
                       /\ DOMAIN tasks' = Registered \cup {task_id}
                       /\ Range(keys') = DOMAIN tasks'
                       /\ Len(keys') = Cardinality(DOMAIN tasks')
                       /\ tasks'[task_id].duration = duration
                       /\ tasks'[task_id].dependencies = dependencies
                       /\ \A f \in {"est", "eft", "lst", "lft", "float"} :
                              tasks'[task_id][f] = 0
                       /\ \A t \in Registered \ {task_id} : tasks'[t] = tasks[t]
                       /\ UNCHANGED <<project_duration, critical_path, graph>>]_vars

\* add_task has just replaced the entry of an analysed task: the other entries,
\* project_duration, critical_path and the graph still hold the analysis
C13_Witness ==
    /\ result.op = "add_task"
    /\ Len(keys) = 2 /\ nAdds = MaxAdds
    /\ project_duration > 0 /\ Len(critical_path) = 2
    /\ \E t \in Registered : tasks[t].eft = 0 /\ tasks[t].dependencies = <<t, "C">>
    /\ \E t \in Registered : tasks[t].eft > 0

\* C14: empty project.  On a project on which add_task was never called,
\* analyze() returns success, project_duration is 0 and critical_path is the
\* empty sequence.
C14_EmptyProject ==
    (nAdds = 0 /\ result.op = "analyze")
        => /\ result.success
           /\ result.message = NoMessage
           /\ project_duration = 0
           /\ critical_path = <<>>
           /\ tasks = <<>> /\ graph = EmptyGraph

\* analyze() has run on the project before any add_task
C14_Witness == nAdds = 0 /\ keys = <<>> /\ result.op = "analyze"

\* the position of task t in critical_path (0 when it is not on it)
PathIndex(t) ==
    IF t \in Range(critical_path)
    THEN CHOOSE i \in 1 .. Len(critical_path) : critical_path[i] = t
    ELSE 0

\* C15: in the application's session (reset, load sample, add a task through
\* the form, press Analyze, open the analysis or export tab), the analysis
\* tab never shows the project summary, diagram and task table when the most
\* recent analyze() call on the session's project failed.
C15_NoResultsAfterFailure ==
    (observed.tab = "PERT Analysis" /\ "PERT Analysis" \in observed.rendered)
        => observed.last_analyze # "failed"

\* C16: after a successful analyze(), critical_path is in execution order:
\* whenever a critical task S declares a critical task D as a dependency, D
\* appears before S in critical_path.
C16_ExecutionOrder ==
    Analyzed =>
        \A S \in Range(critical_path) :
            \A D \in DepsOf(S) \cap Range(critical_path) :
                PathIndex(D) < PathIndex(S)

\* every element of set S stands before position i of sequence order
AllBefore(S, order, i) == \A x \in S : \E j \in 1 .. (i - 1) : order[j] = x

\* C17: in a successful analyze() the backward pass processes every task once,
\* and when it processes task T every task that depends on T (every successor
\* whose latest_start it reads) was processed earlier in this same pass;
\* symmetrically the forward pass processes every task once, and every
\* dependency of T (whose earliest_finish it reads) before T.
C17_ReadsAreFresh ==
    Analyzed =>
        LET forward == topological_sort(graph)
            backward == backward_order(graph)
        IN /\ graph = build_graph(tasks, keys)
           /\ NoRepeats(forward) /\ Range(forward) = Registered
           /\ NoRepeats(backward) /\ Range(backward) = Registered
           /\ \A i \in 1 .. Len(forward) :
                  AllBefore(DepsOf(forward[i]), forward, i)
           /\ \A i \in 1 .. Len(backward) :
                  /\ Range(successors(graph, backward[i])) = Dependents(backward[i])
                  /\ AllBefore(Dependents(backward[i]), backward, i)

\* a successful analysis of a chain C -> B -> A registered in the opposite
\* order, on a project that still held the values of an earlier analysis
C17_Witness ==
    /\ Analyzed /\ reanalysis = "stale"
    /\ keys = <<"A", "B", "C">>
    /\ tasks["A"].dependencies = <<"B">>
    /\ tasks["B"].dependencies = <<"C">>
    /\ tasks["C"].dependencies = <<>>

\* C18: validate_tasks() is read-only.  Whether it succeeds or fails, a call
\* leaves the registry with all computed fields, the stored graph,
\* project_duration and critical_path unchanged, and what it returns is
\* determined by the registry, so any number of calls on an unchanged registry
\* return the same result.
C18_ValidateReadOnly ==
    [][result'.op = "validate_tasks"
          => /\ UNCHANGED <<tasks, keys, graph, project_duration, critical_path>>
             /\ result' = [op |-> "validate_tasks"] @@ validate_tasks(tasks', keys')
             /\ result'.success = (AllResolve' /\ ~DeclaredCycle')]_vars

\* validate_tasks() has just failed on a project that holds the results of an
\* analysis made before the offending task was added
C18_Witness ==
    /\ result.op = "validate_tasks" /\ ~result.success
    /\ project_duration > 0 /\ critical_path # <<>>
    /\ graph # EmptyGraph /\ graph # build_graph(tasks, keys)
    /\ \E t \in Registered : tasks[t].eft > 0

\* C19: when validate_task_input accepts an input, the task id is non-empty
\* and not already registered, the duration is positive and every dependency
\* of the returned list is an identifier of existing_tasks; hence a project
\* built only through the form's validate-then-add_task path always passes
\* validate_tasks().
C19_AcceptedInput ==
    /\ (observed.form.called /\ observed.form.valid)
          => /\ observed.form.task_id # ""
             /\ observed.form.task_id \notin Range(observed.form.existing_tasks)
             /\ observed.form.duration > 0
             /\ Range(observed.form.dependencies)
                   \subseteq Range(observed.form.existing_tasks)
    /\ validate_tasks(tasks, keys).success

\* C20: for every valid project (every dependency registered, no cycle) with
\* at least one task and positive durations, after a successful analyze()
\* critical_path is non-empty and its first element is a task without
\* dependencies, whose earliest_start is 0; the case of critical tasks none of
\* which has in-degree 0 in the critical subgraph does not arise.
C20_PathStartsAtRoot ==
    (/\ Analyzed
     /\ AllResolve /\ ~DeclaredCycle
     /\ keys # <<>>
     /\ \A t \in Registered : tasks[t].duration > 0)
        => /\ critical_path # <<>>
           /\ tasks[critical_path[1]].dependencies = <<>>
           /\ tasks[critical_path[1]].est = 0
           /\ critical_tasks(tasks, keys) # <<>>
                 => start_tasks(graph, critical_tasks(tasks, keys)) # <<>>

====
